---- MODULE Spec2Model ----
(***************************************************************************)
(* A model of neuroBN's discrete Bayesian network class (BayesNet) and of  *)
(* its exact MAP inference routines (map_ve_e, map_opt_e).                 *)
(*                                                                         *)
(* Python lists are sequences; positions reported by the code (list.index, *)
(* flat CPT indices) are 0-based as in the code, so cpt[i] of the code is  *)
(* cpt[i + 1] here.  Python dicts are functions whose DOMAIN is the key    *)
(* set; a lookup of a missing key is a KeyError.                           *)
(***************************************************************************)
EXTENDS Integers, Sequences, FiniteSets, TLC

VARIABLES
    V, E, F,          \* the BayesNet object's fields
    err,              \* the exception that ended the last call, or "none"
    call, ret,        \* the last call made on the network and what it returned
    evidence, prob,   \* map_ve_e's arguments
    pc,               \* map_ve_e's position
    phi,              \* map_ve_e's _phi: the Factorization
    order,            \* map_ve_e's order
    pending,          \* the keys of evidence.items() not yet iterated
    next_var,         \* the position in order of the next var of `for var in order`
    trace,            \* the calls map_ve_e has made on _phi, in order
    max_assignment,   \* map_ve_e's max_assignment
    max_prob,         \* map_ve_e's max_prob
    lp,               \* map_opt_e's model: the constraints added to it
    sol               \* a 0/1 solution of lp: the set of variables set to 1

netVars == <<V, E, F>>
veVars == <<evidence, prob, pc, phi, order, pending, next_var, trace,
           max_assignment, max_prob>>
optVars == <<lp, sol>>
vars == <<V, E, F, err, call, ret, veVars, optVars>>

(***************************************************************************)
(* Bounds of the model.                                                    *)
(***************************************************************************)
\* the rvs a network is built from
Nodes == {"A", "B", "C"}
\* the largest cardinality of a value list
MaxCard == 3
\* the longest V the mutation calls may build
MaxV == 3
\* the longest child list the mutation calls may build
MaxChildren == 2

\* the domain labels value lists are made of
Labels == <<"0", "1", "2", "3", "4">>

(***************************************************************************)
(* Python list helpers.                                                    *)
(***************************************************************************)
Range(s) == {s[i] : i \in 1..Len(s)}

\* list.index(x): the 0-based position of the first x (-1 stands for the
\* ValueError raised when x is absent)
IndexOf(s, x) ==
    IF x \in Range(s)
    THEN (CHOOSE i \in 1..Len(s) : s[i] = x /\ \A j \in 1..(i - 1) : s[j] # x) - 1
    ELSE -1

\* s lists no element twice
NoDuplicates(s) == \A i \in 1..Len(s) : \A j \in 1..Len(s) : s[i] = s[j] => i = j

\* the orderings of a finite set
SeqsOf(S) == {s \in [1..Cardinality(S) -> S] : Range(s) = S}

RECURSIVE Prod(_)
\* np.prod of a list
Prod(s) == IF s = <<>> THEN 1 ELSE s[1] * Prod(Tail(s))

\* the value lists a value_dict may give an rv
ValueLists == {SubSeq(Labels, 1, k) : k \in 1..MaxCard}

(***************************************************************************)
(* neuroBN.utils.topsort.topsort / neuroBN.utils.graph.topsort             *)
(* The set of orders a topological sort of edge_dict may return: every     *)
(* vertex that is a key or a listed child, once, parents before children.  *)
(***************************************************************************)
GraphNodes(edge_dict) ==
    DOMAIN edge_dict \cup UNION {Range(edge_dict[u]) : u \in DOMAIN edge_dict}

topsort(edge_dict) ==
    {s \in SeqsOf(GraphNodes(edge_dict)) :
        \A u \in DOMAIN edge_dict : \A v \in Range(edge_dict[u]) :
            IndexOf(s, u) < IndexOf(s, v)}

\* the directed acyclic adjacency dicts over the key set N
EdgeDicts(N) ==
    {e \in [N -> UNION {SeqsOf(c) : c \in SUBSET N}] : topsort(e) # {}}

(***************************************************************************)
(* BayesNet queries                                                        *)
(***************************************************************************)
nodes == V

has_node(rv) == rv \in Range(V)

children(rv) == E[rv]

parents(rv) == F[rv].parents

values(rv) == F[rv].values

cpt(rv) == F[rv].cpt

card(rv) == Len(F[rv].values)

\* scope with the parents listed first
scope_parents_first(rv) == F[rv].parents \o <<rv>>

scope(rv) == <<rv>> \o F[rv].parents

\* has_edge(u, v): `u in self.E[v]`
has_edge(u, v) == u \in Range(E[v])

\* edges(): the (u, v) pairs yielded, u over nodes() and v over children(u)
edges == UNION {{<<V[i], c>> : c \in Range(children(V[i]))} : i \in 1..Len(V)}

(***************************************************************************)
(* BayesNet.set_structure(edge_dict, value_dict), with s the order topsort *)
(* returned: the V, E and F it leaves.                                     *)
(***************************************************************************)
set_structure(edge_dict, value_dict, s) ==
    [V |-> s,
     E |-> edge_dict,
     F |-> [rv \in Range(s) |->
              [parents |-> SelectSeq(s, LAMBDA p : rv \in Range(edge_dict[p])),
               cpt     |-> <<>>,
               values  |-> value_dict[rv]]]]

\* the record add_node stores in F[rv]; values = <<>> when None is passed
NewData(vals) == [cpt |-> <<>>, parents |-> <<>>, values |-> vals]

\* F with F[rv] = data set
SetF(f, rv, data) == (rv :> data) @@ f

(***************************************************************************)
(* The CPT index resolver: stride, value_idx, cpt_indices, cpt_str_idx     *)
(***************************************************************************)

\* value_idx(rv, val): -1 when val is not a value of rv
value_idx(rv, val) == IndexOf(values(rv), val)

\* stride with the parent's own position taken for the slice's end
stride_without_rv(rv, n) ==
    IF n = rv
    THEN 1
    ELSE LET card_list == <<card(rv)>> \o
                          [i \in 1..Len(parents(rv)) |-> card(parents(rv)[i])]
             n_idx == IndexOf(parents(rv), n)
         IN  Prod(SubSeq(card_list, 1, n_idx))

\* stride(rv, n), for n in scope(rv)
stride(rv, n) ==
    IF n = rv
    THEN 1
    ELSE LET card_list == <<card(rv)>> \o
                          [i \in 1..Len(parents(rv)) |-> card(parents(rv)[i])]
             n_idx == IndexOf(parents(rv), n) + 1
         IN  Prod(SubSeq(card_list, 1, n_idx))

RECURSIVE rv_idx_loop(_, _, _, _, _)
\* the while loop of cpt_indices: rv_idx extended by range(s_idx, s_idx + st),
\* s_idx stepped by step, while s_idx < len
rv_idx_loop(rv_idx, s_idx, st, step, len) ==
    IF s_idx < len
    THEN rv_idx_loop(rv_idx \cup (s_idx..(s_idx + st - 1)),
                     s_idx + step, st, step, len)
    ELSE rv_idx

\* rv_indices with the loop stepping by the stride alone
rv_indices_step_stride(target, rv, val) ==
    LET st == stride(target, rv)
    IN  rv_idx_loop({}, value_idx(rv, val) * st, st, st, Len(cpt(target)))

\* the rv_idx list cpt_indices builds for one (rv, val) item, as a set
rv_indices(target, rv, val) ==
    LET st == stride(target, rv)
    IN  rv_idx_loop({}, value_idx(rv, val) * st, st, st * card(rv), Len(cpt(target)))

RECURSIVE idx_loop(_, _, _, _)
\* the for loop of cpt_indices over the items of val_dict whose keys are in
\* todo: idx intersected with each item's rv_idx (in any order: the
\* intersection does not depend on it)
idx_loop(idx, target, val_dict, todo) ==
    IF todo = {}
    THEN idx
    ELSE LET rv == CHOOSE n \in todo : TRUE
         IN  idx_loop(idx \cap rv_indices(target, rv, val_dict[rv]),
                      target, val_dict, todo \ {rv})

\* cpt_indices(target, val_dict), as the set the returned list is made from
cpt_indices(target, val_dict) ==
    idx_loop(0..(Len(cpt(target)) - 1), target, val_dict, DOMAIN val_dict)

RECURSIVE str_values(_, _, _, _, _, _)
\* the inner loop of cpt_str_idx over values(parent)[k..]; st holds the string
\* built so far (a sequence of tokens) and the counter _idx
str_values(st, rv, rv_val, idx, parent, k) ==
    IF k > card(parent)
    THEN st
    ELSE LET val == values(parent)[k]
             hit == idx \in cpt_indices(rv, (parent :> val) @@ (rv :> rv_val))
             s1  == IF hit THEN st.s \o <<parent, "=", val>> ELSE st.s
             s2  == IF hit /\ st.idx_ < Len(parents(rv)) THEN Append(s1, ",") ELSE s1
         IN  str_values([s |-> s2, idx_ |-> IF hit THEN st.idx_ + 1 ELSE st.idx_],
                        rv, rv_val, idx, parent, k + 1)

RECURSIVE str_parents(_, _, _, _, _)
\* the outer loop of cpt_str_idx over parents(rv)[j..]
str_parents(st, rv, rv_val, idx, j) ==
    IF j > Len(parents(rv))
    THEN st
    ELSE str_parents(str_values(st, rv, rv_val, idx, parents(rv)[j], 1),
                     rv, rv_val, idx, j + 1)

\* cpt_str_idx reading rv's value one position late
cpt_str_idx_late(rv, idx) ==
    LET rv_val == values(rv)[((idx + 1) % card(rv)) + 1]
    IN  str_parents([s |-> <<rv, "=", rv_val, "|">>, idx_ |-> 1],
                    rv, rv_val, idx, 1).s

\* cpt_str_idx(rv, idx): the string, as its sequence of tokens
cpt_str_idx(rv, idx) ==
    LET rv_val == values(rv)[(idx % card(rv)) + 1]
    IN  str_parents([s |-> <<rv, "=", rv_val, "|">>, idx_ |-> 1],
                    rv, rv_val, idx, 1).s

(***************************************************************************)
(* moralized_edges                                                         *)
(***************************************************************************)
RECURSIVE moral_p2_unchecked(_, _, _, _)
\* moral_p2 without the test for the reversed pair
moral_p2_unchecked(e, u, p1, j) ==
    IF j > Len(parents(u))
    THEN e
    ELSE LET p2 == parents(u)[j]
         IN  moral_p2_unchecked(IF p1 # p2 THEN e \cup {<<p1, p2>>} ELSE e,
                                u, p1, j + 1)

RECURSIVE moral_p2(_, _, _, _)
\* the loop over p2 = parents(u)[j..] with the edge set e built so far
moral_p2(e, u, p1, j) ==
    IF j > Len(parents(u))
    THEN e
    ELSE LET p2 == parents(u)[j]
         IN  moral_p2(IF p1 # p2 /\ <<p2, p1>> \notin e THEN e \cup {<<p1, p2>>} ELSE e,
                      u, p1, j + 1)

RECURSIVE moral_p1(_, _, _)
\* the loop over p1 = parents(u)[i..]
moral_p1(e, u, i) ==
    IF i > Len(parents(u))
    THEN e
    ELSE LET p1 == parents(u)[i]
         IN  moral_p1(moral_p2(e \cup {<<p1, u>>}, u, p1, 1), u, i + 1)

RECURSIVE moral_u(_, _)
\* the loop over u = nodes()[k..]
moral_u(e, k) ==
    IF k > Len(nodes) THEN e ELSE moral_u(moral_p1(e, nodes[k], 1), k + 1)

\* moralized_edges(), as the set the returned list is made from
moralized_edges == moral_u({}, 1)

\* set_cpt(rv, cpt) applied to F
set_cpt(f, rv, c) ==
    [n \in DOMAIN f |-> IF n = rv THEN [f[n] EXCEPT !.cpt = c] ELSE f[n]]

(***************************************************************************)
(* neuroBN.classes.factor.Factor                                           *)
(* A factor is [scope, cpt]: an ordered scope and a flat table in which    *)
(* scope[1] varies fastest and scope[i] has the stride of the product of   *)
(* the cardinalities before it.  An assignment gives each rv the position  *)
(* of its value in values(rv).  Table entries are integers: probabilities  *)
(* in tenths, so a product of n CPT entries is in units of 10^-n.          *)
(***************************************************************************)

\* Factor(bn, rv): rv's CPT over scope(rv)
Factor(rv) == [scope |-> scope(rv), cpt |-> cpt(rv)]

\* the number of entries of a table over the scope sc
f_size(sc) == Prod([i \in 1..Len(sc) |-> card(sc[i])])

\* the stride of sc[i] in a table over sc
f_stride(sc, i) == Prod([j \in 1..(i - 1) |-> card(sc[j])])

RECURSIVE f_index_from(_, _, _)
f_index_from(sc, a, i) ==
    IF i > Len(sc) THEN 0 ELSE a[sc[i]] * f_stride(sc, i) + f_index_from(sc, a, i + 1)

\* the flat index of the assignment a (over at least the rvs of sc)
f_index(sc, a) == f_index_from(sc, a, 1)

\* the assignment over sc at the flat index idx
f_assignment(sc, idx) ==
    [n \in Range(sc) |-> (idx \div f_stride(sc, IndexOf(sc, n) + 1)) % card(n)]

\* the entry of f at the assignment a
f_value(f, a) == f.cpt[f_index(f.scope, a) + 1]

\* the flat table over sc whose entry at each assignment a is G(a)
f_table(sc, G(_)) == [k \in 1..f_size(sc) |-> G(f_assignment(sc, k - 1))]

\* s without the rv
Without(s, rv) == SelectSeq(s, LAMBDA n : n # rv)

\* multiply: the scope is the ordered union, each entry the product of both
\* factors' entries at that assignment
multiply(f, g) ==
    LET sc == f.scope \o SelectSeq(g.scope, LAMBDA n : n \notin Range(f.scope))
    IN  [scope |-> sc,
         cpt   |-> f_table(sc, LAMBDA a : f_value(f, a) * f_value(g, a))]

\* restrict: rv leaves the scope, the entries consistent with rv = val stay
restrict(f, rv, val) ==
    LET sc == Without(f.scope, rv)
    IN  [scope |-> sc,
         cpt   |-> f_table(sc, LAMBDA a : f_value(f, (rv :> value_idx(rv, val)) @@ a))]

\* the largest element of a non-empty set of integers
Max(S) == CHOOSE m \in S : \A x \in S : x <= m

\* the smallest element of a non-empty set of integers
Min(S) == CHOOSE m \in S : \A x \in S : m <= x

\* maxMarginalize: rv leaves the scope, each entry is the maximum over rv's
\* values, and the backpointer gives at each remaining assignment the first
\* value of rv (in domain order) that attains it
maxMarginalize(f, rv) ==
    LET sc        == Without(f.scope, rv)
        at(a, v)  == f_value(f, (rv :> v) @@ a)
        best(a)   == Max({at(a, v) : v \in 0..(card(rv) - 1)})
        first(a)  == Min({v \in 0..(card(rv) - 1) : at(a, v) = best(a)})
    IN  [factor |-> [scope |-> sc, cpt |-> f_table(sc, best)],
         bp     |-> [var |-> rv, scope |-> sc, table |-> f_table(sc, first)]]

(***************************************************************************)
(* neuroBN.classes.factorization.Factorization                             *)
(* [f_list, bp, ev]: the factors, the backpointer tables of the            *)
(* eliminations made so far (in order) and the evidence applied so far     *)
(* (rv -> position of its value).                                          *)
(***************************************************************************)

\* Factorization(bn): one Factor per rv of bn.nodes()
Factorization ==
    [f_list |-> [i \in 1..Len(V) |-> Factor(V[i])], bp |-> <<>>, ev |-> <<>>]

\* _phi -= (rv, val)
reduceByEvidence(p, rv, val) ==
    [f_list |-> [i \in 1..Len(p.f_list) |->
                    IF rv \in Range(p.f_list[i].scope)
                    THEN restrict(p.f_list[i], rv, val)
                    ELSE p.f_list[i]],
     bp     |-> p.bp,
     ev     |-> (rv :> value_idx(rv, val)) @@ p.ev]

RECURSIVE product(_, _)
\* the factors of fs from position i on multiplied together, in list order
product(fs, i) ==
    IF i = Len(fs) THEN fs[i] ELSE multiply(fs[i], product(fs, i + 1))

\* _phi //= var
eliminate(p, var) ==
    LET with  == SelectSeq(p.f_list, LAMBDA f : var \in Range(f.scope))
        rest  == SelectSeq(p.f_list, LAMBDA f : var \notin Range(f.scope))
        m     == maxMarginalize(product(with, 1), var)
    IN  IF with = <<>>
        THEN p
        ELSE [f_list |-> Append(rest, m.factor),
              bp     |-> Append(p.bp, m.bp),
              ev     |-> p.ev]

\* consolidate(): the remaining factors multiplied into one
consolidate(p) == product(p.f_list, 1)

RECURSIVE traceback_from(_, _, _)
\* the elimination steps k, k-1, ..., 1 walked with the assignment a resolved
\* so far: each eliminated var gets the value its backpointer table holds at
\* the values already resolved for the step's surviving scope
traceback_from(p, a, k) ==
    IF k = 0
    THEN a
    ELSE LET b == p.bp[k]
         IN  traceback_from(p, (b.var :> b.table[f_index(b.scope, a) + 1]) @@ a, k - 1)

\* traceback_map(): rv -> value, the evidence rvs with their fixed values
traceback_map(p) ==
    LET a == traceback_from(p, p.ev, Len(p.bp))
    IN  [rv \in DOMAIN a |-> values(rv)[a[rv] + 1]]

(***************************************************************************)
(* map_ve_e                                                                *)
(***************************************************************************)

RECURSIVE Pow10(_)
Pow10(n) == IF n = 0 THEN 1 ELSE 10 * Pow10(n - 1)

\* the decimals max_prob is rounded to
Decimals == 5

\* round(x, 5) for x = num * 10^-n >= 0, in units of 10^-5
round5(num, n) ==
    (2 * num * Pow10(Decimals) + Pow10(n)) \div (2 * Pow10(n))

\* list.remove left out
list_remove_nothing(s, x) == s

\* list.remove(x): s without the first x
list_remove(s, x) ==
    LET i == IndexOf(s, x) + 1
    IN  SubSeq(s, 1, i - 1) \o SubSeq(s, i + 1, Len(s))

\* where map_ve_e goes on with the evidence items and order left
NextPc(left, ord, pos) ==
    IF left # {} THEN "evidence"
    ELSE IF pos <= Len(ord) THEN "eliminate"
    ELSE "traceback"

(***************************************************************************)
(* map_opt_e                                                               *)
(* The 0/1 variable of the CPT entry cpt_idx of node (named "node-cpt_idx" *)
(* in the code) is <<node, cpt_idx>>.  A constraint [pos, neg, rhs] says   *)
(* that the sum of the variables of pos minus the sum of those of neg      *)
(* equals rhs.  The weight -log(cpt_val) of a variable is kept as cpt_val  *)
(* (in tenths): the least sum of weights is the largest product of them.   *)
(***************************************************************************)

\* lines 116-121: node_var_dict[node], the variables of the node's entries
node_var_dict(node) == {<<node, cpt_idx>> : cpt_idx \in 0..(Len(cpt(node)) - 1)}

\* lines 116-120: var_list
var_list == UNION {node_var_dict(node) : node \in Range(nodes)}

\* lines 122-124: the objective, variable -> cpt_val
weight_list == [v \in var_list |-> cpt(v[1])[v[2] + 1]]

\* lines 128-132: constraint set 1, one constraint per rv
factor_sum_constraints ==
    {[pos |-> node_var_dict(rv), neg |-> {}, rhs |-> 1] : rv \in Range(nodes)}

\* Factor.value_indices(rv, value): the indices of the entries of f at which
\* rv has the value
value_indices(f, rv, value) ==
    IF rv \notin Range(f.scope)
    THEN {}
    ELSE {idx \in 0..(Len(f.cpt) - 1) :
             f_assignment(f.scope, idx)[rv] = value_idx(rv, value)}

\* the rv that line 138 reads: the one the loop of line 129 ended with
loop_rv == nodes[Len(nodes)]

\* lines 137-154: constraint set 2, one constraint per rv1, child rv2 of
\* loop_rv and value of rv1
factor_agreement_constraints ==
    {[pos |-> {<<e[1], idx>> : idx \in value_indices(Factor(e[1]), e[1], e[3])},
      neg |-> {<<e[2], idx>> : idx \in value_indices(Factor(e[2]), e[2], e[3])},
      rhs |-> 0] :
        e \in {t \in Range(nodes) \X Range(children(loop_rv)) \X Range(Labels) :
                  t[3] \in Range(values(t[1]))}}

\* lines 113-154: the model handed to the solver
LpProblem ==
    [variables   |-> var_list,
     objective   |-> weight_list,
     constraints |-> factor_sum_constraints \cup factor_agreement_constraints]

RECURSIVE Picks(_)
\* the sets that hold exactly one element of each of the (disjoint) cells
Picks(cells) ==
    IF cells = {}
    THEN {{}}
    ELSE LET c == CHOOSE x \in cells : TRUE
         IN  {{v} \cup s : v \in c, s \in Picks(cells \ {c})}

\* the 0/1 solutions of the model p, each as the set of its variables at 1
Feasible(p) ==
    LET cells == {c.pos : c \in {d \in p.constraints : d.neg = {} /\ d.rhs = 1}}
        free  == p.variables \ UNION cells
    IN  {s \in {a \cup b : a \in Picks(cells), b \in SUBSET free} :
            \A c \in p.constraints :
                Cardinality(s \cap c.pos) - Cardinality(s \cap c.neg) = c.rhs}

RECURSIVE Likelihood(_, _)
\* the product of the weights of the variables of s
Likelihood(p, s) ==
    IF s = {}
    THEN 1
    ELSE LET v == CHOOSE x \in s : TRUE
         IN  p.objective[v] * Likelihood(p, s \ {v})

\* line 160, model.solve(): a feasible solution of the least objective; with
\* a zero cpt_val the objective has an infinite coefficient and the solver
\* may return any feasible solution
solve(p) ==
    IF \E v \in p.variables : p.objective[v] = 0
    THEN Feasible(p)
    ELSE {s \in Feasible(p) : \A t \in Feasible(p) : Likelihood(p, t) <= Likelihood(p, s)}

\* no map_ve_e call is running
IdleVe ==
    /\ evidence = <<>>
    /\ prob = FALSE
    /\ pc = "idle"
    /\ phi = <<>>
    /\ order = <<>>
    /\ pending = {}
    /\ next_var = 1
    /\ trace = <<>>
    /\ max_assignment = <<>>
    /\ max_prob = -1

\* no map_opt_e call has been made
IdleOpt ==
    /\ lp = <<>>
    /\ sol = {}

(***************************************************************************)
(* The network as a state machine: construction by set_structure, then     *)
(* add_node, add_edge and has_edge calls.  err holds the exception that    *)
(* ended the last call ("none": the call returned).                        *)
(***************************************************************************)
Init ==
    \E N \in SUBSET Nodes : \E edge_dict \in EdgeDicts(N) :
    \E value_dict \in [N -> {SubSeq(Labels, 1, 2)}] :
    \E s \in topsort(edge_dict) :
        LET bn == set_structure(edge_dict, value_dict, s) IN
        /\ N # {}
        /\ V = bn.V
        /\ E = bn.E
        /\ F = bn.F
        /\ err = "none"
        /\ call = <<"set_structure">>
        /\ ret = "None"
        /\ IdleVe
        /\ IdleOpt

\* add_node(rv, values)
AddNode(rv, vals) ==
    /\ err = "none"
    /\ Len(V) < MaxV
    /\ V' = Append(V, rv)
    /\ F' = SetF(F, rv, NewData(vals))
    /\ call' = <<"add_node", rv>>
    /\ ret' = "None"
    /\ UNCHANGED <<E, err, veVars, optVars>>

\* add_edge(u, v)
AddEdge(u, v) ==
    LET V1 == IF has_node(u) THEN V ELSE Append(V, u)
        F1 == IF has_node(u) THEN F ELSE SetF(F, u, NewData(<<>>))
        V2 == IF v \in Range(V1) THEN V1 ELSE Append(V1, v)
        F2 == IF v \in Range(V1) THEN F1 ELSE SetF(F1, v, NewData(<<>>))
        E2 == [E EXCEPT ![u] = Append(@, v)]
    IN
    /\ err = "none"
    /\ Len(V2) <= MaxV
    /\ call' = <<"add_edge", u, v>>
    /\ UNCHANGED <<veVars, optVars>>
    /\ ret' = "None"
    /\ F' = F2
    /\ IF u \notin DOMAIN E
       THEN \* self.E[u] raises KeyError; the add_node calls have happened
            /\ V' = V2
            /\ E' = E
            /\ err' = "KeyError"
       ELSE /\ Len(E[u]) < MaxChildren
            /\ E' = E2
            /\ V' \in topsort(E2)
            /\ err' = "none"

\* has_edge(u, v)
HasEdge(u, v) ==
    /\ err = "none"
    /\ call' = <<"has_edge", u, v>>
    /\ IF v \notin DOMAIN E
       THEN err' = "KeyError" /\ ret' = "None"
       ELSE err' = "none" /\ ret' = has_edge(u, v)
    /\ UNCHANGED <<V, E, F, veVars, optVars>>

Next ==
    \* add_node is called for rvs that are not in the network yet
    \/ \E rv \in Nodes \ Range(V) : \E vals \in {<<>>, SubSeq(Labels, 1, 2)} :
          AddNode(rv, vals)
    \* add_edge is called with edges that keep the graph acyclic
    \/ \E u \in Nodes : \E v \in Nodes \ {u} : AddEdge(u, v)
    \/ \E u \in Nodes : \E v \in Nodes : HasEdge(u, v)

Spec == Init /\ [][Next]_vars

(***************************************************************************)
(* The index resolver and moralization as calls on a network built by      *)
(* set_structure whose CPTs were set, by set_cpt, to lists of the length   *)
(* the strides assume.                                                     *)
(***************************************************************************)

\* card(rv) times the cardinalities of rv's parents, in the factor data f
cpt_size(f, rv) ==
    Len(f[rv].values) *
    Prod([i \in 1..Len(f[rv].parents) |-> Len(f[f[rv].parents[i]].values)])

\* f after set_cpt(rv, cpts[rv]) for every rv
with_cpts(f, cpts) == [rv \in DOMAIN f |-> set_cpt(f, rv, cpts[rv])[rv]]

InitQuery ==
    \E edge_dict \in EdgeDicts(Nodes) :
    \E value_dict \in [Nodes -> ValueLists] :
    \E s \in topsort(edge_dict) :
        LET bn == set_structure(edge_dict, value_dict, s) IN
        /\ V = bn.V
        /\ E = bn.E
        /\ F = with_cpts(bn.F, [rv \in Nodes |-> [i \in 1..cpt_size(bn.F, rv) |-> 1]])
        /\ err = "none"
        /\ call = <<"set_cpt">>
        /\ ret = "None"
        /\ IdleVe
        /\ IdleOpt

\* The calls below are pure: one call on the network as built decides what
\* any call returns, so a behaviour makes one.
Fresh == call = <<"set_cpt">>

Stride(rv, n) ==
    /\ Fresh
    /\ call' = <<"stride", rv, n>>
    /\ ret' = stride(rv, n)
    /\ UNCHANGED <<netVars, err, veVars, optVars>>

CptIndices(target, val_dict) ==
    /\ Fresh
    /\ call' = <<"cpt_indices", target, val_dict>>
    /\ ret' = cpt_indices(target, val_dict)
    /\ UNCHANGED <<netVars, err, veVars, optVars>>

CptStrIdx(rv, idx) ==
    /\ Fresh
    /\ call' = <<"cpt_str_idx", rv, idx>>
    /\ ret' = cpt_str_idx(rv, idx)
    /\ UNCHANGED <<netVars, err, veVars, optVars>>

MoralizedEdges ==
    /\ Fresh
    /\ call' = <<"moralized_edges">>
    /\ ret' = moralized_edges
    /\ UNCHANGED <<netVars, err, veVars, optVars>>

\* the assignments of values to the rvs of S
Assignments(S) ==
    {a \in [S -> Range(Labels)] : \A n \in S : a[n] \in Range(values(n))}

NextQuery ==
    \/ \E rv \in Range(V) : \E n \in Range(scope(rv)) : Stride(rv, n)
    \/ \E target \in Range(V) : \E S \in SUBSET Range(scope(target)) :
       \E val_dict \in Assignments(S) : CptIndices(target, val_dict)
    \/ \E rv \in Range(V) : \E idx \in 0..(Len(cpt(rv)) - 1) : CptStrIdx(rv, idx)
    \/ MoralizedEdges

SpecQuery == InitQuery /\ [][NextQuery]_vars

(***************************************************************************)
(* Moralization on four-node networks, where two co-parents can be joined  *)
(* by an edge and share several children.  Child lists are taken in name   *)
(* order: moralized_edges reads only V and the parent lists.               *)
(***************************************************************************)
MoralNodes == Nodes \cup {"D"}

NodeOrder == <<"A", "B", "C", "D">>

\* the adjacency dict of the edge relation R over the key set N
DictOf(N, R) == [u \in N |-> SelectSeq(NodeOrder, LAMBDA v : <<u, v>> \in R)]

InitMoral ==
    \E R \in SUBSET {e \in MoralNodes \X MoralNodes : e[1] # e[2]} :
    \E s \in topsort(DictOf(MoralNodes, R)) :
        LET bn == set_structure(DictOf(MoralNodes, R),
                                [rv \in MoralNodes |-> SubSeq(Labels, 1, 2)], s) IN
        /\ V = bn.V
        /\ E = bn.E
        /\ F = with_cpts(bn.F, [rv \in MoralNodes |-> [i \in 1..cpt_size(bn.F, rv) |-> 1]])
        /\ err = "none"
        /\ call = <<"set_cpt">>
        /\ ret = "None"
        /\ IdleVe
        /\ IdleOpt

NextMoral == MoralizedEdges

SpecMoral == InitMoral /\ [][NextMoral]_vars

(***************************************************************************)
(* map_ve_e as a state machine, on networks of binary rvs whose CPTs give  *)
(* the assignments of the parents the distributions of Dists (in tenths)   *)
(* in rotation, from any starting point.  Edges go forward in name order   *)
(* and V is the topological order that lists the rvs in name order: every  *)
(* DAG with a topological order is one of these up to the rvs' names.      *)
(* prob and target are read by the return statement alone, so the values   *)
(* the call was given for them are drawn there.                            *)
(***************************************************************************)

\* the most evidence items a call is given
MaxEvidence == 2

\* the distributions of a binary rv a CPT is made of, in tenths
Dists == <<<<6, 4>>, <<10, 0>>, <<0, 10>>>>

\* the CPTs set_cpt may give rv in the factor data f: one distribution per
\* assignment of the parents, rv varying fastest
Cpts(f, rv) ==
    LET c == Len(f[rv].values)
    IN  {[k \in 1..cpt_size(f, rv) |->
            Dists[((((k - 1) \div c) + shift) % Len(Dists)) + 1][((k - 1) % c) + 1]] :
            shift \in 0..(Len(Dists) - 1)}

RECURSIVE AllCpts(_, _)
\* the factor data set_cpt can reach from f by giving each rv of todo a CPT
AllCpts(f, todo) ==
    IF todo = {}
    THEN {f}
    ELSE LET rv == CHOOSE n \in todo : TRUE
         IN  UNION {AllCpts(set_cpt(f, rv, c), todo \ {rv}) : c \in Cpts(f, rv)}

\* the pairs (u, v) of N with u before v in name order
ForwardPairs(N) ==
    {e \in N \X N : IndexOf(NodeOrder, e[1]) < IndexOf(NodeOrder, e[2])}

InitVe ==
    \E N \in {{"A", "B"}, Nodes} :
    \E R \in SUBSET ForwardPairs(N) :
    \E s \in topsort(DictOf(N, R)) :
        LET bn == set_structure(DictOf(N, R), [rv \in N |-> SubSeq(Labels, 1, 2)], s) IN
        /\ s = SubSeq(NodeOrder, 1, Cardinality(N))
        /\ V = bn.V
        /\ E = bn.E
        /\ F \in AllCpts(bn.F, N)
        /\ err = "none"
        /\ call = <<"set_cpt">>
        /\ ret = "None"
        /\ IdleVe
        /\ IdleOpt

\* lines 45-47: _phi = Factorization(bn); order = copy(list(bn.nodes()))
MapVeStart(ev) ==
    /\ pc = "idle"
    /\ evidence' = ev
    /\ phi' = Factorization
    /\ order' = nodes
    /\ pending' = DOMAIN ev
    /\ next_var' = 1
    /\ trace' = <<>>
    /\ pc' = NextPc(DOMAIN ev, nodes, 1)
    /\ call' = <<"map_ve_e">>
    /\ UNCHANGED <<netVars, err, ret, prob, max_assignment, max_prob, optVars>>

\* lines 49-51: one pass of `for E, e in evidence.items()`
MapVeEvidence(Ev) ==
    /\ pc = "evidence"
    /\ Ev \in pending
    /\ phi' = reduceByEvidence(phi, Ev, evidence[Ev])
    /\ order' = list_remove(order, Ev)
    /\ pending' = pending \ {Ev}
    /\ trace' = Append(trace, <<"reduce", Ev>>)
    /\ pc' = NextPc(pending', order', 1)
    /\ UNCHANGED <<netVars, err, call, ret, evidence, prob, next_var,
                   max_assignment, max_prob, optVars>>

\* lines 54-55: one pass of `for var in order`
MapVeEliminate ==
    /\ pc = "eliminate"
    /\ phi' = eliminate(phi, order[next_var])
    /\ next_var' = next_var + 1
    /\ trace' = Append(trace, <<"eliminate", order[next_var]>>)
    /\ pc' = NextPc({}, order, next_var + 1)
    /\ UNCHANGED <<netVars, err, call, ret, evidence, prob, order, pending,
                   max_assignment, max_prob, optVars>>

\* line 58: max_assignment = _phi.traceback_map()
MapVeTraceback ==
    /\ pc = "traceback"
    /\ max_assignment' = traceback_map(phi)
    /\ trace' = Append(trace, <<"traceback_map">>)
    /\ pc' = "return"
    /\ UNCHANGED <<netVars, err, call, ret, evidence, prob, phi, order, pending,
                   next_var, max_prob, optVars>>

\* lines 61-74: the return, for the prob and target the call was given
\* (target "None": none)
MapVeReturn(pr, target) ==
    LET result == IF target = "None" THEN max_assignment ELSE max_assignment[target]
    IN
    /\ pc = "return"
    /\ prob' = pr
    /\ IF pr
       THEN /\ max_prob' = round5(consolidate(phi).cpt[1], Len(V))
            /\ trace' = Append(trace, <<"consolidate">>)
            /\ ret' = <<max_prob', result>>
       ELSE /\ ret' = result
            /\ UNCHANGED <<max_prob, trace>>
    /\ call' = <<"map_ve_e", target>>
    /\ pc' = "done"
    /\ UNCHANGED <<netVars, err, evidence, phi, order, pending, next_var,
                   max_assignment, optVars>>

\* the evidence mappings over the rvs of the network
Evidences ==
    UNION {Assignments(S) : S \in {T \in SUBSET Range(V) : Cardinality(T) <= MaxEvidence}}

NextVe ==
    \/ \E ev \in Evidences : MapVeStart(ev)
    \/ \E Ev \in Range(V) : MapVeEvidence(Ev)
    \/ MapVeEliminate
    \/ MapVeTraceback
    \/ \E pr \in BOOLEAN : \E target \in {"None", V[Len(V)]} : MapVeReturn(pr, target)

SpecVe == InitVe /\ [][NextVe]_vars

(***************************************************************************)
(* map_opt_e as a state machine, on the networks of InitVe.  The module    *)
(* never defines LpProblem, LpMinimize, LpVariable, LpInteger,             *)
(* node_var_dict and weight_list: names_bound says whether the caller put  *)
(* them into the module's namespace (the solver library's names, an empty  *)
(* list per node and an empty list) before the call.                       *)
(***************************************************************************)

\* lines 110-154: the model is built, or line 113 raises NameError; the
\* evidence ev (a dictionary) is read by the assert of line 111 alone
MapOptE(ev, names_bound) ==
    /\ call = <<"set_cpt">>
    /\ ev \in Evidences
    /\ IF names_bound
       THEN /\ lp' = LpProblem
            /\ err' = "none"
       ELSE /\ err' = "NameError"
            /\ UNCHANGED lp
    /\ call' = <<"map_opt_e">>
    /\ UNCHANGED <<netVars, ret, veVars, sol>>

\* lines 160-162: model.solve() and the variables at 1 returned
MapOptSolve ==
    /\ call = <<"map_opt_e">>
    /\ err = "none"
    /\ sol' \in solve(lp)
    /\ ret' = [v \in sol' |-> 1]
    /\ call' = <<"map_opt_e", "solve">>
    /\ UNCHANGED <<netVars, err, veVars, lp>>

NextOpt ==
    \/ \E ev \in Evidences : \E names_bound \in BOOLEAN : MapOptE(ev, names_bound)
    \/ MapOptSolve

SpecOpt == InitVe /\ [][NextOpt]_vars

(***************************************************************************)
(* Claims about the index resolver (checked under SpecQuery)               *)
(***************************************************************************)

RECURSIVE CardsBefore(_, _)
\* the product of the cardinalities of the first k parents of rv
CardsBefore(rv, k) ==
    IF k = 0 THEN 1 ELSE CardsBefore(rv, k - 1) * Len(F[F[rv].parents[k]].values)

\* C4: stride(rv, rv) = 1, and for a parent p at 0-indexed position i of rv's
\* parent list, stride(rv, p) = card(rv) times the product of card(parents[j])
\* over j < i.
C4_StrideIsProductOfEarlierCards ==
    call[1] = "stride" =>
        LET rv == call[2]
            n  == call[3]
        IN  /\ n = rv => ret = 1
            /\ \A i \in 0..(Len(F[rv].parents) - 1) :
                  F[rv].parents[i + 1] = n =>
                      ret = Len(F[rv].values) * CardsBefore(rv, i)

\* a stride call for the second parent of an rv, all three with several values
C4_Witness ==
    /\ call[1] = "stride"
    /\ Len(F[call[2]].parents) = 2
    /\ F[call[2]].parents[2] = call[3]
    /\ ret > Len(F[call[2]].values)
    /\ Len(F[call[2]].values) > 1

\* the full assignments over the scope of rv
FullAssignments(rv) == Assignments(Range(scope(rv)))

\* C2: for a full assignment over the scope of rv, cpt_indices returns exactly
\* one flat index, it lies in [0, len(cpt(rv))), no other full assignment gets
\* the same index and every index of the CPT is the index of a full assignment.
C2_FullAssignmentIndexBijection ==
    (call[1] = "cpt_indices" /\ DOMAIN call[3] = Range(scope(call[2]))) =>
        LET rv     == call[2]
            len    == Len(F[rv].cpt)
            \* what cpt_indices returns over all the full assignments
            images == {cpt_indices(rv, a) : a \in FullAssignments(rv)}
        IN  /\ Cardinality(ret) = 1
            /\ ret \subseteq 0..(len - 1)
            /\ ret \in images
            \* one index each, and every index of the CPT is produced
            /\ images = {{i} : i \in 0..(len - 1)}
            \* no two full assignments share an index
            /\ Cardinality(images) = Cardinality(FullAssignments(rv))

\* a full assignment over an rv with two parents that is not the first entry
C2_Witness ==
    /\ call[1] = "cpt_indices"
    /\ DOMAIN call[3] = Range(scope(call[2]))
    /\ Len(F[call[2]].parents) = 2
    /\ Cardinality(ret) = 1
    /\ \E i \in ret : i >= 2 * Len(F[call[2]].values)

\* the (name, value) pairs a cpt_str_idx string names: the tokens around "="
NamedPairs(t) == {<<t[i - 1], t[i + 1]>> : i \in {j \in 2..(Len(t) - 1) : t[j] = "="}}

\* the number of name=value items in the string
NamedCount(t) == Cardinality({j \in 1..Len(t) : t[j] = "="})

\* C5: for a valid flat index idx of rv's CPT the string cpt_str_idx(rv, idx)
\* names exactly one value for rv and exactly one for each parent of rv, and
\* cpt_indices(rv, the assignment it names) is exactly [idx].
C5_DecodeRoundTrip ==
    call[1] = "cpt_str_idx" =>
        LET rv == call[2]
            S  == Range(scope(rv))
        IN  /\ NamedCount(ret) = Cardinality(S)
            /\ \A n \in S : Cardinality({q \in NamedPairs(ret) : q[1] = n}) = 1
            /\ \A q \in NamedPairs(ret) : q[1] \in S /\ q[2] \in Range(F[q[1]].values)
            /\ LET a == [n \in S |-> CHOOSE v \in Range(F[n].values) :
                                        <<n, v>> \in NamedPairs(ret)]
               IN  cpt_indices(rv, a) = {call[3]}

\* a string decoded for an rv with two parents at an index past the first rows
C5_Witness ==
    /\ call[1] = "cpt_str_idx"
    /\ Len(F[call[2]].parents) = 2
    /\ call[3] >= 2 * Len(F[call[2]].values)
    /\ NamedCount(ret) = 3

(***************************************************************************)
(* Claims about moralization (checked under SpecMoral)                     *)
(***************************************************************************)

\* C3: moralized_edges() holds every directed edge (parent, child); for every
\* rv with k parents it holds exactly C(k,2) edges between parents of that rv,
\* one for each unordered pair of distinct parents and never both (p1, p2)
\* and (p2, p1) (a pair already joined by a directed edge is held as that
\* edge); and it holds nothing else.
C3_MoralizedEdges ==
    call[1] = "moralized_edges" =>
        /\ edges \subseteq ret
        /\ \A e \in ret : <<e[2], e[1]>> \notin ret
        /\ \A u \in Range(V) :
              LET P == Range(F[u].parents)
                  k == Cardinality(P)
              IN  /\ \A p1 \in P : \A p2 \in P \ {p1} :
                        <<p1, p2>> \in ret \/ <<p2, p1>> \in ret
                  /\ 2 * Cardinality({e \in ret : e[1] \in P /\ e[2] \in P}) = k * (k - 1)
        /\ \A e \in ret :
              \/ e \in edges
              \/ \E u \in Range(V) : {e[1], e[2]} \subseteq Range(F[u].parents)

\* two co-parents of two children that are themselves joined by an edge
C3_Witness ==
    /\ call[1] = "moralized_edges"
    /\ \E p1 \in Range(V) : \E p2 \in Range(V) \ {p1} :
       \E u1 \in Range(V) : \E u2 \in Range(V) \ {u1} :
          /\ {p1, p2} \subseteq Range(F[u1].parents)
          /\ {p1, p2} \subseteq Range(F[u2].parents)
          /\ <<p1, p2>> \in edges

(***************************************************************************)
(* Claims about map_ve_e (checked under SpecVe)                            *)
(***************************************************************************)

\* the joint probability of the full assignment a (rv -> value), in units of
\* 10^-Len(V): the product of each rv's CPT entry at a, found by cpt_indices
JointWeight(a) ==
    Prod([i \in 1..Len(V) |->
            LET rv  == V[i]
                idx == cpt_indices(rv, [n \in Range(F[rv].parents) \cup {rv} |-> a[n]])
            IN  F[rv].cpt[(CHOOSE j \in idx : TRUE) + 1]])

\* the joint assignments consistent with the evidence
Consistent ==
    {a \in Assignments(Range(V)) : \A rv \in DOMAIN evidence : a[rv] = evidence[rv]}

\* the brute-force maximum of the joint probability
BruteMax == Max({JointWeight(a) : a \in Consistent})

\* the chain A -> B with P(A=0) = 0.6, P(A=1) = 0.4 and B equal to A
ChainScenario ==
    /\ V = <<"A", "B">>
    /\ E = [A |-> <<"B">>, B |-> <<>>]
    /\ F["A"].cpt = <<6, 4>>
    /\ F["B"].cpt = <<10, 0, 0, 10>>
    /\ DOMAIN evidence = {}

PosOf(kind) == {i \in 1..Len(trace) : trace[i][1] = kind}

\* the rvs the calls of the kind were made for, in order
RvsOf(kind) ==
    LET calls == SelectSeq(trace, LAMBDA t : t[1] = kind)
    IN  [i \in 1..Len(calls) |-> calls[i][2]]

\* s is a prefix of t
IsPrefix(s, t) == Len(s) <= Len(t) /\ SubSeq(t, 1, Len(s)) = s

\* C8: in a run of map_ve_e every evidence reduction comes before any
\* elimination; each evidence rv is reduced exactly once and never eliminated;
\* the non-evidence rvs are eliminated once each, in the network's topological
\* order; traceback_map (and consolidate, made only when prob is requested)
\* runs only after all of them; and at the end the reduced and the eliminated
\* rvs partition the nodes.
C8_EvidenceThenEliminationThenTraceback ==
    LET reduced    == RvsOf("reduce")
        eliminated == RvsOf("eliminate")
        free       == SelectSeq(V, LAMBDA n : n \notin DOMAIN evidence)
        finished   == /\ Range(reduced) = DOMAIN evidence
                      /\ eliminated = free
    IN  pc # "idle" =>
        /\ \A i \in PosOf("reduce") : \A j \in PosOf("eliminate") : i < j
        /\ NoDuplicates(reduced)
        /\ Range(reduced) \subseteq DOMAIN evidence
        /\ PosOf("eliminate") # {} => Range(reduced) = DOMAIN evidence
        /\ Range(eliminated) \cap DOMAIN evidence = {}
        /\ IsPrefix(eliminated, free)
        /\ PosOf("traceback_map") \cup PosOf("consolidate") # {} => finished
        /\ \A i \in PosOf("traceback_map") \cup PosOf("consolidate") :
           \A j \in PosOf("reduce") \cup PosOf("eliminate") : j < i
        /\ \A i \in PosOf("consolidate") :
              prob /\ \E j \in PosOf("traceback_map") : j < i
        /\ pc = "done" =>
              /\ finished
              /\ Cardinality(PosOf("traceback_map")) = 1
              /\ Cardinality(PosOf("consolidate")) = (IF prob THEN 1 ELSE 0)
              /\ Range(reduced) \cup Range(eliminated) = Range(V)
              /\ Range(reduced) \cap Range(eliminated) = {}

\* a finished run with prob that reduced one evidence rv and eliminated two
C8_Witness ==
    /\ pc = "done"
    /\ prob
    /\ Len(RvsOf("reduce")) = 1
    /\ Len(RvsOf("eliminate")) = 2
    /\ PosOf("consolidate") # {}

(***************************************************************************)
(* Claims about map_opt_e (checked under SpecOpt)                          *)
(***************************************************************************)

\* the CPT entries of rv the solution s selects
SelectedOf(s, rv) == {v[2] : v \in {x \in s : x[1] = rv}}

\* s selects one entry per rv, and for every edge u -> c the entries of u and
\* of c give u the same value
IsConsistentSelection(s) ==
    /\ \A rv \in Range(V) : Cardinality(SelectedOf(s, rv)) = 1
    /\ \A e \in edges :
       \E val \in Range(values(e[1])) :
          /\ SelectedOf(s, e[1]) \subseteq cpt_indices(e[1], (e[1] :> val))
          /\ SelectedOf(s, e[2]) \subseteq cpt_indices(e[2], (e[1] :> val))

\* the selection of the complete assignment a: each rv's entry at a
SelectionOf(a) ==
    UNION {{<<rv, idx>> : idx \in
              cpt_indices(rv, [n \in Range(scope(rv)) |-> a[n]])} : rv \in Range(V)}

\* C7: a map_opt_e call builds an integer program whose feasible 0/1 solutions
\* are exactly the complete consistent assignments: each selects one CPT entry
\* per rv, the entry of every child agrees with its parents' entries on the
\* parents' values, and every complete assignment is such a solution.
C7_FeasibleIsConsistentAssignment ==
    call[1] = "map_opt_e" =>
        /\ err = "none"
        /\ \A s \in Feasible(lp) : IsConsistentSelection(s)
        /\ \A a \in Assignments(Range(V)) : SelectionOf(a) \in Feasible(lp)

(***************************************************************************)
(* Claims about the mutation calls (checked under Spec)                    *)
(***************************************************************************)

\* C6: after set_structure on a DAG and any acyclicity-preserving sequence of
\* add_node and add_edge calls, every call has completed and V is a
\* topological order of E: it holds every node ever added (the keys of F)
\* exactly once, and u precedes v in V for every edge u -> v of E.
C6_VIsTopologicalOrder ==
    call[1] \in {"set_structure", "add_node", "add_edge"} =>
        /\ err = "none"
        /\ NoDuplicates(V)
        /\ Range(V) = DOMAIN F
        /\ \A u \in DOMAIN E : \A v \in Range(E[u]) :
              /\ u \in Range(V)
              /\ v \in Range(V)
              /\ IndexOf(V, u) < IndexOf(V, v)

\* C9: after set_structure and after any add_edge call that returned, u is
\* in parents(v) if and only if v is in children(u), for every pair of rvs.
C9_ParentChildConsistent ==
    (call[1] \in {"set_structure", "add_edge"} /\ err = "none") =>
        \A u \in DOMAIN E : \A v \in DOMAIN F :
            (u \in Range(parents(v))) <=> (v \in Range(children(u)))

\* C10: has_edge(u, v) returns true exactly when (u, v) is yielded by
\* edges(), that is when v is in children(u).
C10_HasEdgeIffEdge ==
    (call[1] = "has_edge" /\ err = "none" /\ Range(V) \subseteq DOMAIN E) =>
        (ret <=> <<call[2], call[3]>> \in edges)

====
